---- MODULE Spec2Model ----
(***************************************************************************)
(* A model of class BlockTTtensor (TensorTrain/TTtensors.py): the object's *)
(* fields, its constructor, the two sweeps of ComputeInterfaces taken one  *)
(* loop iteration at a time, the accessors and the setters.                *)
(*                                                                         *)
(* Arrays are modelled by their identity and shape ([id, shape]); the      *)
(* streamed readers (basis sources, interfaces) are modelled by the term   *)
(* that produced them, so two readers are equal exactly when they were     *)
(* obtained by the same primitive from the same inputs and cache path.     *)
(* Python lists are sequences; a Python index k is the position k + 1, and *)
(* negative indices wrap as in Python.                                     *)
(***************************************************************************)
EXTENDS Integers, Sequences, FiniteSets, TLC

\* ------------------------------------------------------------------ bounds
\* largest number of coordinates d of an input tensor (the smallest is 2)
MaxD == 4
\* the first bond rank of an input is drawn from 1..MaxRank
MaxRank == 2
\* the number of stacked functions M of an input is drawn from 1..MaxM
MaxM == 2
\* calls of ComputeInterfaces made by a caller after construction
MaxRuns == 2
\* calls of SetComponentTensor / SetInterface
MaxSets == 1

VARIABLES
    Uin,            \* the arrays passed to the constructor as U, as they were then
    U,              \* self.U: the component arrays
    basis,          \* self.basis: the basis readers
    tensordir,      \* self.tensordir
    d,              \* self.d
    root,           \* self.root
    M,              \* self.M
    R,              \* self.R
    interfaces,     \* self.interfaces
    pc,             \* "new", "left", "right", "ready", "failed"
    caller,         \* who called the running ComputeInterfaces: "init" or "user"
    loop_k,         \* the loop variable k of the running sweep
    interface_list, \* local of ComputeInterfaces
    backward_list,  \* local of ComputeInterfaces
    Yk,             \* local of ComputeInterfaces
    status,         \* of the current / last run: "none", "running", "done", "error"
    snap,           \* the inputs the current / last run started from
    calls,          \* the primitive calls of the current / last run, in order
    compReads,      \* coordinates whose component array that run has read
    basisReads,     \* coordinates whose basis reader that run has read
    result,         \* the list returned by the last completed run
    prev,           \* status, snap, calls and result of the run before
    ret,            \* the last call on the object and what it returned
    nRun,           \* calls of ComputeInterfaces made by a caller so far
    nSet            \* setter calls so far

vars == << Uin, U, basis, tensordir, d, root, M, R, interfaces, pc, caller,
           loop_k, interface_list, backward_list, Yk, status, snap, calls,
           compReads, basisReads, result, prev, ret, nRun, nSet >>

\* ----------------------------------------------------------- Python values
RECURSIVE Prod(_)
\* the number of entries of an array of shape s
Prod(s) == IF s = << >> THEN 1 ELSE Head(s) * Prod(Tail(s))

\* s reversed
Reverse(s) == [i \in 1..Len(s) |-> s[Len(s) + 1 - i]]

\* the position of Python index k in a list of length n; 0 when out of range
PyIndex(n, k) ==
    IF k >= 0 /\ k < n THEN k + 1
    ELSE IF k < 0 /\ -k <= n THEN n + k + 1
    ELSE 0

\* an ndarray: which data it holds, its shape, and whether its axes are
\* reversed with respect to that data
Array(id, shape) == [id |-> id, shape |-> shape, T |-> FALSE]
NoArray == Array(-1, << >>)

\* np.reshape(A, shape): the same data; fails unless the sizes agree
ReshapeOK(A, shape) == Prod(A.shape) = Prod(shape)
Reshape(A, shape) == [id |-> A.id, shape |-> shape, T |-> A.T]

\* A.transpose(): the axes reversed
Transpose(A) == [id |-> A.id, shape |-> Reverse(A.shape), T |-> ~A.T]

\* readers: a basis source, the result of a primitive call, a reader handed
\* in by the caller, and the unbound local
NoCall == << >>
Reader(id) == [kind |-> "basis", id |-> id, term |-> NoCall]
External(id) == [kind |-> "external", id |-> id, term |-> NoCall]
Unbound == [kind |-> "unbound", id |-> -1, term |-> NoCall]
Computed(call) == [kind |-> "interface", id |-> -1, term |-> << call >>]

\* self.tensordir + "Interface%d" % k
CachePath(dir, k) == << dir, "Interface", k >>

\* Util.ApplyLinearTransform(F, A, path): a deterministic function of its
\* arguments, cached at path
ApplyLinearTransform(F, A, path) ==
    Computed([prim |-> "ApplyLinearTransform", a |-> F, b |-> Unbound,
              path |-> path, mat |-> A])

\* Util.DoubleProducts(a, b, path, A): a deterministic function of its
\* arguments, cached at path
DoubleProducts(a, b, path, A) ==
    Computed([prim |-> "DoubleProducts", a |-> a, b |-> b,
              path |-> path, mat |-> A])

\* ---------------------------------------------------------------- inputs
\* the basis size of coordinate k (0-based): every coordinate has its own
BasisSize(k) == k + 2

\* The shape of input component k (0-based) of a chain of dd coordinates whose
\* bond b has rank r0 + b. Coordinate 0 has left rank 1, coordinate dd-1 right
\* rank 1; coordinate 0 carries the 4th axis m when m > 0; when bad > 0, the
\* left rank of coordinate bad is one more than the right rank of bad - 1.
InputShape(k, dd, r0, bad, m) ==
    LET left  == IF k = 0 THEN 1
                 ELSE r0 + (k - 1) + (IF bad = k THEN 1 ELSE 0)
        right == IF k = dd - 1 THEN 1 ELSE r0 + k
        three == << left, BasisSize(k), right >>
    IN  IF k = 0 /\ m > 0 THEN Append(three, m) ELSE three

InputComponents ==
    { [i \in 1..t[1] |-> Array(i - 1, InputShape(i - 1, t[1], t[2], t[3], t[4]))] :
        t \in { t \in (2..MaxD) \X (1..MaxRank) \X (0..(MaxD - 1)) \X (0..MaxM) :
                   t[3] < t[1] } }

\* the default of the constructor's parameter tensordir (line 6)
TensorDirs == { "./" }

\* the right rank of component k differs from the left rank of component k+1
\* for some k (both 0-based), in the list u
RankIncompatible(u) ==
    \E i \in 1..(Len(u) - 1) : u[i].shape[3] # u[i + 1].shape[1]

\* ------------------------------------------------------- what a call returns
Ret(op, k, kind) ==
    [op |-> op, k |-> k, order |-> 0, given |-> TRUE, kind |-> kind,
     seq |-> << >>, arr |-> NoArray, src |-> Unbound]
NoRet == Ret("none", 0, "ok")

NoSnap == [U |-> << >>, root |-> -1, basis |-> << >>, tensordir |-> ""]
NoRun == [status |-> "none", snap |-> NoSnap, calls |-> << >>, result |-> << >>]

Init ==
    /\ Uin \in InputComponents
    /\ basis = [i \in 1..Len(Uin) |-> Reader(i - 1)]
    /\ tensordir \in TensorDirs
    /\ U = << >>
    /\ d = 0
    /\ root = 0
    /\ M = 0
    /\ R = << >>
    /\ interfaces = << >>
    /\ pc = "new"
    /\ caller = "none"
    /\ loop_k = 0
    /\ interface_list = << >>
    /\ backward_list = << >>
    /\ Yk = Unbound
    /\ status = "none"
    /\ snap = NoSnap
    /\ calls = << >>
    /\ compReads = << >>
    /\ basisReads = << >>
    /\ result = << >>
    /\ prev = NoRun
    /\ ret = NoRet
    /\ nRun = 0
    /\ nSet = 0

\* ------------------------------------------------------------- accessors
\* a faulty variant: the rank taken from the first axis
DeriveRank_left(A) == A.shape[1]
\* line 32: the rank of bond k is the third axis of component k
DeriveRank(A) == A.shape[3]

\* line 47: the test that decides between one rank and the whole vector
GetRanksOne(k) == k >= 0 \/ k <= (d - 2)

\* GetRanks(k): R[k] (numpy indexing) or R
GetRanks(k) ==
    IF GetRanksOne(k)
    THEN IF PyIndex(Len(R), k) = 0
         THEN [kind |-> "IndexError", seq |-> << >>]
         ELSE [kind |-> "scalar", seq |-> << R[PyIndex(Len(R), k)] >>]
    ELSE [kind |-> "vector", seq |-> R]

\* line 56: shape[:3]
FirstThree(shape) == SubSeq(shape, 1, IF Len(shape) < 3 THEN Len(shape) ELSE 3)

\* GetRankTriple(k)
GetRankTriple(k) ==
    IF PyIndex(Len(U), k) = 0
    THEN [kind |-> "IndexError", seq |-> << >>]
    ELSE IF k = root
         THEN [kind |-> "ok", seq |-> FirstThree(U[PyIndex(Len(U), k)].shape)]
         ELSE [kind |-> "ok", seq |-> U[PyIndex(Len(U), k)].shape]

\* ComponentBasis(k)
ComponentBasis(k) ==
    IF PyIndex(Len(basis), k) = 0
    THEN [kind |-> "IndexError", src |-> Unbound]
    ELSE [kind |-> "ok", src |-> basis[PyIndex(Len(basis), k)]]

\* a faulty variant: the left unfolding groups the last two axes
LeftUnfoldShape_swapped(dims) == << dims[1], dims[2] * dims[3] >>
\* line 89: the shape of the left unfolding
LeftUnfoldShape(dims) == << dims[1] * dims[2], dims[3] >>

\* line 92: the shape of the right unfolding
RightUnfoldShape(dims) == << dims[1], dims[2] * dims[3] >>

\* lines 88-89 and 91-92: np.reshape(self.U[k], shape)
Unfold(k, shape) ==
    IF ReshapeOK(U[PyIndex(Len(U), k)], shape)
    THEN [kind |-> "ok", arr |-> Reshape(U[PyIndex(Len(U), k)], shape)]
    ELSE [kind |-> "ValueError", arr |-> NoArray]

\* ComponentTensor(k, order)
ComponentTensor(k, order) ==
    IF PyIndex(Len(U), k) = 0
    THEN [kind |-> "IndexError", arr |-> NoArray]
    ELSE IF order = 1 /\ ~(k = root)
         THEN Unfold(k, LeftUnfoldShape(GetRankTriple(k).seq))
         ELSE IF order = 2 /\ ~(k = root)
              THEN Unfold(k, RightUnfoldShape(GetRankTriple(k).seq))
              ELSE [kind |-> "ok", arr |-> U[PyIndex(Len(U), k)]]

\* GetInterface(k)
GetInterface(k) ==
    IF PyIndex(Len(interfaces), k) = 0
    THEN [kind |-> "IndexError", src |-> Unbound]
    ELSE [kind |-> "ok", src |-> interfaces[PyIndex(Len(interfaces), k)]]

\* ------------------------------------------------------ ComputeInterfaces
\* line 139: the unfolding the left sweep asks for
LeftOrder == 1
\* line 153: the unfolding the right sweep asks for
RightOrder == 2

\* line 137: for k in range(self.root)
LeftRange(k) == k < root
\* line 151: for k in range(self.d-2, self.root-1, -1)
RightStart == d - 2
RightRange(k) == k > root - 1
\* a faulty variant: the right sweep reads the coordinate left of bond k
RightCoord_same(k) == k
\* lines 153 and 155: the coordinate the right sweep reads at bond k
RightCoord(k) == k + 1
\* line 143
LeftIsFirst(k) == k = 0
\* line 157
RightIsFirst(k) == k = (d - 2)
\* a faulty variant: the unfolding is not transposed
RightMatrix_plain(Uk) == Uk
\* lines 158 and 160: Uk.transpose()
RightMatrix(Uk) == Transpose(Uk)
\* line 147: interface_list.append(Yk)
ForwardAppend(list, y) == Append(list, y)
\* a faulty variant: the right sweep's readers are appended
BackwardInsert_append(list, y) == Append(list, y)
\* line 161: backward_list.insert(0, Yk)
BackwardInsert(list, y) == << y >> \o list
\* line 163: interface_list + backward_list
Glue(forward, backward) == forward \o backward

\* a faulty variant: the sweep appends to the stored list
StartList_stale(stored) == stored
\* line 135: the list the sweep starts from (stored is self.interfaces)
StartList(stored) == << >>

\* a faulty variant: the previous interface and the basis change places
LeftInterface_swapped(k, Fk, Uk, Yprev) ==
    IF LeftIsFirst(k)
    THEN ApplyLinearTransform(Fk, Uk, CachePath(tensordir, k))
    ELSE DoubleProducts(Fk, Yprev, CachePath(tensordir, k), Uk)
\* lines 143-146: the interface of bond k in the left sweep
LeftInterface(k, Fk, Uk, Yprev) ==
    IF LeftIsFirst(k)
    THEN ApplyLinearTransform(Fk, Uk, CachePath(tensordir, k))
    ELSE DoubleProducts(Yprev, Fk, CachePath(tensordir, k), Uk)

\* lines 157-160: the interface of bond k in the right sweep
RightInterface(k, Fk, Uk, Yprev) ==
    IF RightIsFirst(k)
    THEN ApplyLinearTransform(Fk, RightMatrix(Uk), CachePath(tensordir, k))
    ELSE DoubleProducts(Fk, Yprev, CachePath(tensordir, k), RightMatrix(Uk))

\* A call of ComputeInterfaces by c ("init" or "user") on an object whose
\* components are u and whose root is r: line 135, and the run's record.
Enter(c, u, r) ==
    /\ caller' = c
    /\ interface_list' = StartList(interfaces)
    /\ backward_list' = << >>
    /\ Yk' = Unbound
    /\ loop_k' = 0
    /\ pc' = "left"
    /\ status' = "running"
    /\ prev' = [status |-> status, snap |-> snap, calls |-> calls,
                result |-> result]
    /\ snap' = [U |-> u, root |-> r, basis |-> basis, tensordir |-> tensordir]
    /\ calls' = << >>
    /\ compReads' = << >>
    /\ basisReads' = << >>

\* An exception leaves ComputeInterfaces: the constructor's caller gets no
\* object, a later caller keeps the object as it was.
Abort(kind) ==
    /\ status' = "error"
    /\ pc' = IF caller = "init" THEN "failed" ELSE "ready"
    /\ ret' = Ret(IF caller = "init" THEN "__init__" ELSE "ComputeInterfaces",
                  0, kind)

\* lines 6-34: the constructor, up to its call of ComputeInterfaces
Construct ==
    /\ pc = "new"
    /\ U' = Uin
    /\ d' = Len(Uin)
    /\ root' = 0
    /\ UNCHANGED << Uin, basis, tensordir, interfaces, result, nRun, nSet >>
    /\ IF Len(Uin[1].shape) < 4
          \/ \E i \in 1..(Len(Uin) - 1) : Len(Uin[i].shape) < 3
       THEN \* line 28 or line 32: tuple index out of range
            /\ pc' = "failed"
            /\ ret' = Ret("__init__", 0, "IndexError")
            /\ M' = IF Len(Uin[1].shape) < 4 THEN M ELSE Uin[1].shape[4]
            /\ UNCHANGED << R, caller, loop_k, interface_list, backward_list,
                            Yk, status, snap, calls, compReads, basisReads,
                            prev >>
       ELSE /\ M' = Uin[1].shape[4]
            /\ R' = [i \in 1..(Len(Uin) - 1) |-> DeriveRank(Uin[i])]
            /\ Enter("init", Uin, 0)
            /\ UNCHANGED ret

\* lines 137-147: one iteration of the left sweep
LeftStep ==
    /\ pc = "left"
    /\ LeftRange(loop_k)
    /\ compReads' = Append(compReads, loop_k)
    /\ LET ct == ComponentTensor(loop_k, LeftOrder)
           fb == ComponentBasis(loop_k)
           y == LeftInterface(loop_k, fb.src, ct.arr, Yk)
       IN  IF ct.kind # "ok"
           THEN /\ Abort(ct.kind)
                /\ UNCHANGED << basisReads, Yk, calls, interface_list, loop_k >>
           ELSE IF fb.kind # "ok"
           THEN /\ Abort(fb.kind)
                /\ UNCHANGED << basisReads, Yk, calls, interface_list, loop_k >>
           ELSE /\ basisReads' = Append(basisReads, loop_k)
                /\ Yk' = y
                /\ calls' = Append(calls, [sweep |-> "left", bond |-> loop_k,
                                           call |-> y.term[1]])
                /\ interface_list' = ForwardAppend(interface_list, y)
                /\ loop_k' = loop_k + 1
                /\ UNCHANGED << pc, status, ret >>
    /\ UNCHANGED << Uin, U, basis, tensordir, d, root, M, R, interfaces,
                    caller, backward_list, snap, result, prev, nRun, nSet >>

\* lines 148-151: the left loop ends and the right loop begins
LeftDone ==
    /\ pc = "left"
    /\ ~LeftRange(loop_k)
    /\ backward_list' = << >>
    /\ loop_k' = RightStart
    /\ pc' = "right"
    /\ UNCHANGED << Uin, U, basis, tensordir, d, root, M, R, interfaces,
                    caller, interface_list, Yk, status, snap, calls,
                    compReads, basisReads, result, prev, ret, nRun, nSet >>

\* lines 151-161: one iteration of the right sweep
RightStep ==
    /\ pc = "right"
    /\ RightRange(loop_k)
    /\ compReads' = Append(compReads, RightCoord(loop_k))
    /\ LET ct == ComponentTensor(RightCoord(loop_k), RightOrder)
           fb == ComponentBasis(RightCoord(loop_k))
           y == RightInterface(loop_k, fb.src, ct.arr, Yk)
       IN  IF ct.kind # "ok"
           THEN /\ Abort(ct.kind)
                /\ UNCHANGED << basisReads, Yk, calls, backward_list, loop_k >>
           ELSE IF fb.kind # "ok"
           THEN /\ Abort(fb.kind)
                /\ UNCHANGED << basisReads, Yk, calls, backward_list, loop_k >>
           ELSE /\ basisReads' = Append(basisReads, RightCoord(loop_k))
                /\ Yk' = y
                /\ calls' = Append(calls, [sweep |-> "right", bond |-> loop_k,
                                           call |-> y.term[1]])
                /\ backward_list' = BackwardInsert(backward_list, y)
                /\ loop_k' = loop_k - 1
                /\ UNCHANGED << pc, status, ret >>
    /\ UNCHANGED << Uin, U, basis, tensordir, d, root, M, R, interfaces,
                    caller, interface_list, snap, result, prev, nRun, nSet >>

\* lines 162-164, and line 34 when the constructor called: the lists are
\* glued and returned
RightDone ==
    /\ pc = "right"
    /\ ~RightRange(loop_k)
    /\ interface_list' = Glue(interface_list, backward_list)
    /\ result' = interface_list'
    /\ interfaces' = IF caller = "init" THEN interface_list' ELSE interfaces
    /\ status' = "done"
    /\ pc' = "ready"
    /\ ret' = Ret(IF caller = "init" THEN "__init__" ELSE "ComputeInterfaces",
                  0, "ok")
    /\ UNCHANGED << Uin, U, basis, tensordir, d, root, M, R, caller, loop_k,
                    backward_list, Yk, snap, calls, compReads, basisReads,
                    prev, nRun, nSet >>

\* a caller calls ComputeInterfaces on the constructed object (line 126)
ComputeInterfaces ==
    /\ pc = "ready"
    /\ nRun < MaxRuns
    /\ nRun' = nRun + 1
    /\ Enter("user", U, root)
    /\ UNCHANGED << Uin, U, basis, tensordir, d, root, M, R, interfaces,
                    result, ret, nSet >>

\* ------------------------------------------------------------- the setters
\* the Python indices callers pass: every valid one, and one beyond the end
KArgs == -1..d

\* a faulty variant: the entry after the one asked for is assigned
ListAssign_next(list, pos, v) == [list EXCEPT ![(pos % Len(list)) + 1] = v]
\* lines 104 and 125: list[k] = v, at the position pos of index k
ListAssign(list, pos, v) == [list EXCEPT ![pos] = v]

\* the arrays a caller passes for coordinate k: a 3-index array of the stored
\* ranks, one whose right rank is one larger, and a 4-index array
NewComponents(k) ==
    LET pos == PyIndex(Len(U), k)
        t == IF pos = 0 THEN << 1, 1, 1 >> ELSE FirstThree(U[pos].shape)
    IN  { Array(d + nSet, t),
          Array(d + nSet, << t[1], t[2], t[3] + 1 >>),
          Array(d + nSet, Append(t, M)) }

\* lines 95-104
SetComponentTensor ==
    /\ pc = "ready"
    /\ nSet < MaxSets
    /\ nSet' = nSet + 1
    /\ \E k \in KArgs : \E u \in NewComponents(k) :
         IF PyIndex(Len(U), k) = 0
         THEN /\ ret' = Ret("SetComponentTensor", k, "IndexError")
              /\ U' = U
         ELSE /\ ret' = [Ret("SetComponentTensor", k, "ok") EXCEPT !.arr = u]
              /\ U' = ListAssign(U, PyIndex(Len(U), k), u)
    /\ UNCHANGED << Uin, basis, tensordir, d, root, M, R, interfaces, pc,
                    caller, loop_k, interface_list, backward_list, Yk, status,
                    snap, calls, compReads, basisReads, result, prev, nRun >>

\* lines 117-125
SetInterface ==
    /\ pc = "ready"
    /\ nSet < MaxSets
    /\ nSet' = nSet + 1
    /\ \E k \in KArgs : \E intf \in { External(nSet) } :
         IF PyIndex(Len(interfaces), k) = 0
         THEN /\ ret' = Ret("SetInterface", k, "IndexError")
              /\ interfaces' = interfaces
         ELSE /\ ret' = [Ret("SetInterface", k, "ok") EXCEPT !.src = intf]
              /\ interfaces' = ListAssign(interfaces,
                                          PyIndex(Len(interfaces), k), intf)
    /\ UNCHANGED << Uin, U, basis, tensordir, d, root, M, R, pc, caller,
                    loop_k, interface_list, backward_list, Yk, status, snap,
                    calls, compReads, basisReads, result, prev, nRun >>

\* line 26: root is a plain attribute of the object; a caller that places the
\* root elsewhere assigns it
SetRoot ==
    /\ pc = "ready"
    /\ \E r \in 0..(d - 1) :
         /\ r # root
         /\ root' = r
         /\ ret' = Ret("root", r, "ok")
    /\ UNCHANGED << Uin, U, basis, tensordir, d, M, R, interfaces, pc, caller,
                    loop_k, interface_list, backward_list, Yk, status, snap,
                    calls, compReads, basisReads, result, prev, nRun, nSet >>

\* -------------------------------------------------------------- the queries
Unobserved ==
    UNCHANGED << Uin, U, basis, tensordir, d, root, M, R, interfaces, pc,
                 caller, loop_k, interface_list, backward_list, Yk, status,
                 snap, calls, compReads, basisReads, result, prev, nRun, nSet >>

\* line 35: the default of GetRanks' parameter k
DefaultK == -1

\* GetRanks() and GetRanks(k)
CallGetRanks ==
    /\ pc = "ready"
    /\ \E given \in BOOLEAN : \E k \in (IF given THEN KArgs ELSE { DefaultK }) :
         ret' = [Ret("GetRanks", k, GetRanks(k).kind) EXCEPT
                    !.given = given, !.seq = GetRanks(k).seq]
    /\ Unobserved

\* GetRankTriple(k)
CallGetRankTriple ==
    /\ pc = "ready"
    /\ \E k \in KArgs :
         ret' = [Ret("GetRankTriple", k, GetRankTriple(k).kind) EXCEPT
                    !.seq = GetRankTriple(k).seq]
    /\ Unobserved

\* ComponentTensor(k, order) and ComponentTensor(k)
CallComponentTensor ==
    /\ pc = "ready"
    /\ \E k \in KArgs : \E order \in 0..2 :
         ret' = [Ret("ComponentTensor", k, ComponentTensor(k, order).kind) EXCEPT
                    !.order = order, !.arr = ComponentTensor(k, order).arr]
    /\ Unobserved

\* ComponentBasis(k)
CallComponentBasis ==
    /\ pc = "ready"
    /\ \E k \in KArgs :
         ret' = [Ret("ComponentBasis", k, ComponentBasis(k).kind) EXCEPT
                    !.src = ComponentBasis(k).src]
    /\ Unobserved

\* GetInterface(k)
CallGetInterface ==
    /\ pc = "ready"
    /\ \E k \in KArgs :
         ret' = [Ret("GetInterface", k, GetInterface(k).kind) EXCEPT
                    !.src = GetInterface(k).src]
    /\ Unobserved

\* the object's life as the sweeps see it: construction, a root placed
\* elsewhere, ComputeInterfaces called again
Next ==
    \/ Construct
    \/ LeftStep
    \/ LeftDone
    \/ RightStep
    \/ RightDone
    \/ ComputeInterfaces
    \/ SetRoot

Spec == Init /\ [][Next]_vars

\* construction (whose root is 0, so that its left loop has no iteration), a
\* root placed elsewhere, and the setters
NextSet ==
    \/ Construct
    \/ LeftDone
    \/ RightStep
    \/ RightDone
    \/ SetRoot
    \/ SetComponentTensor
    \/ SetInterface

SpecSet == Init /\ [][NextSet]_vars

\* construction, a root placed elsewhere, and the accessors
NextQuery ==
    \/ Construct
    \/ LeftDone
    \/ RightStep
    \/ RightDone
    \/ SetRoot
    \/ CallGetRanks
    \/ CallGetRankTriple
    \/ CallComponentTensor
    \/ CallComponentBasis
    \/ CallGetInterface

SpecQuery == Init /\ [][NextQuery]_vars

\* ================================================================ claims
\* the calls of the current / last run made by the left and the right loop
LeftCalls == SelectSeq(calls, LAMBDA c : c.sweep = "left")
RightCalls == SelectSeq(calls, LAMBDA c : c.sweep = "right")

\* the left unfolding of a component A: A's data as (a*b, c)
LeftUnfoldingOf(A) ==
    [id |-> A.id, shape |-> << A.shape[1] * A.shape[2], A.shape[3] >>,
     T |-> FALSE]

\* the transposed right unfolding of a component A: A's data as (a, b*c),
\* axes reversed
TransposedRightUnfoldingOf(A) ==
    [id |-> A.id, shape |-> << A.shape[2] * A.shape[3], A.shape[1] >>,
     T |-> TRUE]

\* the bonds among the calls cs
BondsOf(cs) == { cs[i].bond : i \in 1..Len(cs) }

\* C1: when ComputeInterfaces has finished on a chain of d coordinates with
\* root r, the returned list has d-1 entries, entry k is the reader computed
\* for bond k at cache path Interface<k>, every bond was computed by exactly
\* one call, the left loop computed exactly the bonds 0..r-1 and the right
\* loop exactly the bonds r..d-2.
C1_OneInterfacePerBond ==
    status = "done" =>
        LET r == snap.root
            dd == Len(snap.U)
        IN  /\ Len(result) = dd - 1
            /\ Len(calls) = dd - 1
            /\ BondsOf(LeftCalls) = 0..(r - 1)
            /\ BondsOf(RightCalls) = r..(dd - 2)
            /\ \A k \in 0..(dd - 2) :
                 /\ result[k + 1].kind = "interface"
                 /\ result[k + 1].term[1].path = << tensordir, "Interface", k >>
                 /\ Cardinality({ i \in 1..Len(calls) : calls[i].bond = k }) = 1
                 /\ \A i \in 1..Len(calls) :
                      calls[i].bond = k =>
                        /\ result[k + 1] = Computed(calls[i].call)
                        /\ calls[i].sweep = IF k < r THEN "left" ELSE "right"

\* a finished run on 4 coordinates with root 2: two bonds from the left loop
\* and one from the right loop
C1_Witness ==
    /\ status = "done"
    /\ Len(snap.U) = 4
    /\ snap.root = 2
    /\ Len(LeftCalls) = 2
    /\ Len(RightCalls) = 1

\* C2: when the components passed to the constructor are rank-incompatible
\* (and component 0 has its 4th axis), no primitive is ever called and no
\* object is constructed.
C2_FailsBeforeAnyPrimitive ==
    (RankIncompatible(Uin) /\ Len(Uin[1].shape) = 4) =>
        (calls = << >> /\ pc # "ready")

\* C3: GetRanks() returns the whole vector R, and GetRanks(k) with
\* 0 <= k <= d-2 returns the single rank R[k].
C3_GetRanksAllOrOne ==
    ret.op = "GetRanks" =>
        /\ ~ret.given => (ret.kind = "vector" /\ ret.seq = R)
        /\ (ret.given /\ ret.k >= 0 /\ ret.k <= d - 2) =>
              (ret.kind = "scalar" /\ ret.seq = << R[ret.k + 1] >>)

\* C4: ComponentTensor(k, order) of a non-root coordinate whose component has
\* shape (a,b,c) has shape (a*b,c) for order 1, (a,b*c) for order 2 and
\* (a,b,c) for order 0; of the root coordinate it is the stored array in its
\* native shape, for every order. It is the component's data in every case.
C4_UnfoldingShapes ==
    (ret.op = "ComponentTensor" /\ ret.k >= 0 /\ ret.k <= d - 1) =>
        LET A == U[ret.k + 1]
            s == A.shape
        IN  /\ ret.k = root => (ret.kind = "ok" /\ ret.arr = A)
            /\ (ret.k # root /\ Len(s) = 3) =>
                 /\ ret.kind = "ok"
                 /\ ret.arr.id = A.id
                 /\ ret.order = 0 => ret.arr.shape = s
                 /\ ret.order = 1 => ret.arr.shape = << s[1] * s[2], s[3] >>
                 /\ ret.order = 2 => ret.arr.shape = << s[1], s[2] * s[3] >>

\* the left unfolding of a non-root component whose left rank is above 1
C4_Witness ==
    /\ ret.op = "ComponentTensor"
    /\ ret.order = 1
    /\ ret.k >= 1
    /\ ret.k <= d - 1
    /\ ret.k # root
    /\ ret.kind = "ok"
    /\ U[ret.k + 1].shape[1] > 1
    /\ Len(ret.arr.shape) = 2

\* C5: on the object as constructed (root 0) from rank-compatible components,
\* GetRankTriple(k) has exactly three entries for every coordinate k, the root
\* included; its third entry is R[k] (k <= d-2) and its first entry is R[k-1]
\* (k >= 1).
C5_RanksMatchTriples ==
    (ret.op = "GetRankTriple" /\ root = 0 /\ ~RankIncompatible(U)
        /\ ret.k >= 0 /\ ret.k <= d - 1) =>
        /\ ret.kind = "ok"
        /\ Len(ret.seq) = 3
        /\ ret.k <= d - 2 => R[ret.k + 1] = ret.seq[3]
        /\ ret.k >= 1 => R[ret.k] = ret.seq[1]

\* the triple of the middle coordinate of a compatible chain of 3, whose two
\* ranks differ from its basis size and from each other
C5_Witness ==
    /\ ret.op = "GetRankTriple"
    /\ root = 0
    /\ ~RankIncompatible(U)
    /\ d = 3
    /\ ret.k = 1
    /\ ret.seq[1] # ret.seq[3]

\* C6: the right loop computes the bonds d-2, d-3, ... in this order and none
\* below the root; bond d-2 by a linear transform of basis d-1 by the
\* transposed right unfolding of component d-1, every later bond k by a double
\* product of basis k+1, the reader computed for bond k+1 and the transposed
\* right unfolding of component k+1. A finished run has computed all of
\* root..d-2 this way, and with root 0 the left loop has made no call.
C6_RightSweepOrder ==
    LET rc == RightCalls
        dd == Len(snap.U)
    IN  /\ \A i \in 1..Len(rc) :
             LET k == rc[i].bond
                 c == rc[i].call
             IN  /\ k = dd - 1 - i
                 /\ k >= snap.root
                 /\ c.path = << tensordir, "Interface", k >>
                 /\ c.a = snap.basis[k + 2]
                 /\ c.mat = TransposedRightUnfoldingOf(snap.U[k + 2])
                 /\ IF i = 1
                    THEN c.prim = "ApplyLinearTransform"
                    ELSE /\ c.prim = "DoubleProducts"
                         /\ c.b = Computed(rc[i - 1].call)
        /\ status = "done" => Len(rc) = dd - 1 - snap.root
        /\ (status = "done" /\ snap.root = 0) => LeftCalls = << >>

\* d = 4 with root 0: one linear transform, then two double products
C6_Witness ==
    /\ status = "done"
    /\ Len(snap.U) = 4
    /\ snap.root = 0
    /\ Len(RightCalls) = 3
    /\ RightCalls[1].call.prim = "ApplyLinearTransform"
    /\ RightCalls[3].call.prim = "DoubleProducts"

\* C7: the left loop computes the bonds 0, 1, ... in this order and none at
\* or above the root; bond 0 by a linear transform of basis 0 by the left
\* unfolding of component 0, every later bond k by a double product of the
\* reader computed for bond k-1, basis k and the left unfolding of component
\* k. A finished run has computed all of 0..root-1 this way; a side with a
\* single bond has made one linear transform and no double product.
C7_LeftSweepOrder ==
    LET lc == LeftCalls
        rc == RightCalls
        dd == Len(snap.U)
    IN  /\ \A i \in 1..Len(lc) :
             LET k == lc[i].bond
                 c == lc[i].call
             IN  /\ k = i - 1
                 /\ k < snap.root
                 /\ c.path = << tensordir, "Interface", k >>
                 /\ c.mat = LeftUnfoldingOf(snap.U[k + 1])
                 /\ IF i = 1
                    THEN /\ c.prim = "ApplyLinearTransform"
                         /\ c.a = snap.basis[1]
                    ELSE /\ c.prim = "DoubleProducts"
                         /\ c.a = Computed(lc[i - 1].call)
                         /\ c.b = snap.basis[k + 1]
        /\ status = "done" => Len(lc) = snap.root
        /\ (status = "done" /\ snap.root = 1) =>
              (Len(lc) = 1 /\ lc[1].call.prim = "ApplyLinearTransform")
        /\ (status = "done" /\ snap.root = dd - 2) =>
              (Len(rc) = 1 /\ rc[1].call.prim = "ApplyLinearTransform")

\* a finished run with root 3: a linear transform, then two double products
C7_Witness ==
    /\ status = "done"
    /\ snap.root = 3
    /\ Len(LeftCalls) = 3
    /\ LeftCalls[1].call.prim = "ApplyLinearTransform"
    /\ LeftCalls[3].call.prim = "DoubleProducts"

\* what a setter call may change: SetComponentTensor(k, U) the entry of self.U
\* at index k and nothing else of the object, SetInterface(k, intf) the entry
\* of self.interfaces at index k and nothing else; neither starts a sweep
SetterFrame ==
    /\ R' = R
    /\ root' = root
    /\ M' = M
    /\ d' = d
    /\ basis' = basis
    /\ tensordir' = tensordir
    /\ calls' = calls
    /\ status' = status
    /\ result' = result
    /\ pc' = pc
    /\ ret'.op \in { "SetComponentTensor", "SetInterface" }
    /\ ret'.op = "SetComponentTensor" =>
         /\ interfaces' = interfaces
         /\ Len(U') = Len(U)
         /\ \A i \in 1..Len(U) :
              IF i = PyIndex(Len(U), ret'.k) /\ ret'.kind = "ok"
              THEN U'[i] = ret'.arr
              ELSE U'[i] = U[i]
         /\ (ret'.k >= 0 /\ ret'.k < d) => U'[ret'.k + 1] = ret'.arr
    /\ ret'.op = "SetInterface" =>
         /\ U' = U
         /\ Len(interfaces') = Len(interfaces)
         /\ \A i \in 1..Len(interfaces) :
              IF i = PyIndex(Len(interfaces), ret'.k) /\ ret'.kind = "ok"
              THEN interfaces'[i] = ret'.src
              ELSE interfaces'[i] = interfaces[i]
         /\ (ret'.k >= 0 /\ ret'.k < d - 1) => interfaces'[ret'.k + 1] = ret'.src

C9_SameInputsSameSweep ==
    (status = "done" /\ prev.status = "done" /\ prev.snap = snap) =>
        (prev.calls = calls /\ prev.result = result)

\* two finished runs with the same root, both loops having computed a bond
C9_Witness ==
    /\ status = "done"
    /\ prev.status = "done"
    /\ prev.snap = snap
    /\ snap.root >= 1
    /\ Len(LeftCalls) >= 1
    /\ Len(RightCalls) >= 1

\* C10: a run never reads the component or the basis reader of its root; a
\* finished run has read those of the coordinates 0..root-1 (left loop), then
\* d-1 down to root+1 (right loop), each exactly once.
C10_RootNeverRead ==
    LET r == snap.root
        dd == Len(snap.U)
    IN  /\ \A i \in 1..Len(compReads) : compReads[i] # r
        /\ \A i \in 1..Len(basisReads) : basisReads[i] # r
        /\ status = "done" =>
             /\ compReads = [i \in 1..(dd - 1) |->
                               IF i <= r THEN i - 1 ELSE dd - (i - r)]
             /\ basisReads = compReads

\* a finished run whose root has coordinates on both sides
C10_Witness ==
    /\ status = "done"
    /\ Len(snap.U) = 4
    /\ snap.root = 1
    /\ Len(compReads) = 3
    /\ Len(basisReads) = 3

====
